---- MODULE Spec2Model ----
(***************************************************************************)
(* A model of the code-flow graph builder of tscg (src/src/graph.ts,       *)
(* src/src/index.ts).  The ts-morph project (the Source Model) is an       *)
(* external collaborator: it is represented by a finite syntax tree with   *)
(* the answers to the queries the builder makes (kinds, descendants,       *)
(* definitions, references).  The builder itself, a set of mutually        *)
(* recursive methods, is a machine with an explicit call stack: one frame  *)
(* per active method call, one action per method.                          *)
(***************************************************************************)
EXTENDS Integers, Sequences, FiniteSets, TLC

\* The greatest number of active calls the model follows (the JS call stack
\* is finite too); the builder never reaches it on the programs below.
MaxDepth == 12

\* The greatest number of declarations one identifier resolves to in the
\* generated programs.
MaxDefs == 1

\* JS `undefined`, where a NodeInfo or an EdgeInfo reference is expected.
Undefined == -1

\* enum NodeType, enum EdgeType
NodeType == {"Function", "Call", "Argument", "Object", "Any"}
EdgeType == {"Child", "Argument", "Call"}

Lookup(f, k, default) == IF k \in DOMAIN f THEN f[k] ELSE default

RECURSIVE Concat(_)
Concat(ss) == IF ss = <<>> THEN <<>> ELSE Head(ss) \o Concat(Tail(ss))

(***************************************************************************)
(* The analysed programs.  A program is                                    *)
(*   files     the source files, each with its top-level variable          *)
(*             declarations, function declarations and classes (a class    *)
(*             is the sequence of its methods), in source order;           *)
(*   kind      the SyntaxKind of every construct;                          *)
(*   children  the syntax tree below a construct, restricted to what the   *)
(*             builder looks at: for a declaration the contents of its     *)
(*             body or initializer, for a call its argument expressions    *)
(*             (no program below nests a call in a callee expression);     *)
(*   exported  the exported variable declarations;                         *)
(*   init      the SyntaxKind of a variable's initializer ("none": absent);*)
(*   stmt      the declarations of a variable's statement, when it holds   *)
(*             more than the variable itself;                              *)
(*   noStmt    the variables for which no variable statement is reported;  *)
(*   noBody    the functions and methods without a body;                   *)
(*   body      the body of a function-valued variable, when the body is    *)
(*             an expression and not a block;                              *)
(*   expr      the SyntaxKind of a call's callee expression;               *)
(*   defs      the declarations the name in callee position resolves to    *)
(*             (the builder asks getDefinitionNodes() of identifier        *)
(*             callees only);                                              *)
(*   free      the calls whose identifier callee is resolved by `resolve`; *)
(*   refs      findReferences() of a variable: per reference the parent    *)
(*             of its parent, and whether that node's expression is the    *)
(*             reference's parent.                                         *)
(***************************************************************************)

\* Tryaway: the analysed example of the repository.
\*   export class Foo { bar(x, callback) { return callback(callback(x)); } }
\*   export const double = function(x) { return x + x; }
\*   export const foo = new Foo();
\*   foo.bar(5, double);
Tryaway ==
  [ files    |-> << [vars |-> <<"double", "foo">>, funcs |-> <<>>,
                     classes |-> << <<"bar">> >>] >>,
    kind     |-> ("bar" :> "MethodDeclaration")
              @@ ("callback(callback(x))" :> "CallExpression")
              @@ ("callback(x)" :> "CallExpression")
              @@ ("x" :> "Identifier")
              @@ ("param callback" :> "Parameter")
              @@ ("double" :> "VariableDeclaration")
              @@ ("foo" :> "VariableDeclaration")
              @@ ("const foo = new Foo()" :> "VariableDeclarationList")
              @@ ("foo.bar(5, double)" :> "CallExpression")
              @@ ("5" :> "NumericLiteral")
              @@ ("id double" :> "Identifier"),
    children |-> ("bar" :> <<"callback(callback(x))">>)
              @@ ("callback(callback(x))" :> <<"callback(x)">>)
              @@ ("callback(x)" :> <<"x">>)
              @@ ("foo.bar(5, double)" :> <<"5", "id double">>),
    exported |-> {"double", "foo"},
    init     |-> ("double" :> "FunctionExpression") @@ ("foo" :> "NewExpression"),
    stmt     |-> <<>>,
    noStmt   |-> {},
    noBody   |-> {},
    body     |-> <<>>,
    expr     |-> ("callback(callback(x))" :> "Identifier")
              @@ ("callback(x)" :> "Identifier")
              @@ ("foo.bar(5, double)" :> "PropertyAccessExpression"),
    defs     |-> ("callback(callback(x))" :> <<"param callback">>)
              @@ ("callback(x)" :> <<"param callback">>)
              @@ ("foo.bar(5, double)" :> <<"bar">>),
    free     |-> {},
    refs     |-> ("foo" :> << [call |-> "const foo = new Foo()", exprIsTemp |-> FALSE],
                              [call |-> "foo.bar(5, double)", exprIsTemp |-> TRUE] >>) ]

\* Helper: a variable that is not exported, beside exported ones.
\*   const helper = function(x) { return x; }
\*   export const main = () => { run(helper); }, aux = new Aux();
\*   aux.go(); aux.stop(run(2));
Helper ==
  [ files    |-> << [vars |-> <<"helper", "main", "aux">>, funcs |-> <<>>,
                     classes |-> <<>>] >>,
    kind     |-> ("helper" :> "VariableDeclaration")
              @@ ("main" :> "VariableDeclaration")
              @@ ("aux" :> "VariableDeclaration")
              @@ ("run(helper)" :> "CallExpression")
              @@ ("id helper" :> "Identifier")
              @@ ("aux.go()" :> "CallExpression")
              @@ ("aux.stop(run(2))" :> "CallExpression")
              @@ ("run(2)" :> "CallExpression")
              @@ ("2" :> "NumericLiteral")
              @@ ("import run" :> "ImportSpecifier")
              @@ ("main = ..., aux = ..." :> "VariableDeclarationList"),
    children |-> ("main" :> <<"run(helper)">>)
              @@ ("run(helper)" :> <<"id helper">>)
              @@ ("aux.stop(run(2))" :> <<"run(2)">>)
              @@ ("run(2)" :> <<"2">>),
    exported |-> {"main", "aux"},
    init     |-> ("helper" :> "FunctionExpression") @@ ("main" :> "ArrowFunction")
              @@ ("aux" :> "NewExpression"),
    stmt     |-> ("main" :> <<"main", "aux">>) @@ ("aux" :> <<"main", "aux">>),
    noStmt   |-> {},
    noBody   |-> {},
    body     |-> <<>>,
    expr     |-> ("run(helper)" :> "Identifier") @@ ("run(2)" :> "Identifier")
              @@ ("aux.go()" :> "PropertyAccessExpression")
              @@ ("aux.stop(run(2))" :> "PropertyAccessExpression"),
    defs     |-> ("run(helper)" :> <<"import run">>) @@ ("run(2)" :> <<"import run">>),
    free     |-> {},
    refs     |-> ("aux" :> << [call |-> "main = ..., aux = ...", exprIsTemp |-> FALSE],
                              [call |-> "aux.go()", exprIsTemp |-> TRUE],
                              [call |-> "aux.stop(run(2))", exprIsTemp |-> TRUE] >>) ]

\* Recursive: self recursion, and mutual recursion across two files.
\*   a.ts: function fact(n) { return fact(n - 1); }
\*         function even(n) { return odd(n); }
\*   b.ts: function odd(n) { return even(n); }
Recursive ==
  [ files    |-> << [vars |-> <<>>, funcs |-> <<"fact", "even">>, classes |-> <<>>],
                    [vars |-> <<>>, funcs |-> <<"odd">>, classes |-> <<>>] >>,
    kind     |-> ("fact" :> "FunctionDeclaration")
              @@ ("even" :> "FunctionDeclaration")
              @@ ("odd" :> "FunctionDeclaration")
              @@ ("fact(n - 1)" :> "CallExpression")
              @@ ("n - 1" :> "BinaryExpression")
              @@ ("odd(n)" :> "CallExpression")
              @@ ("even(n)" :> "CallExpression")
              @@ ("n in even" :> "Identifier")
              @@ ("n in odd" :> "Identifier"),
    children |-> ("fact" :> <<"fact(n - 1)">>)
              @@ ("fact(n - 1)" :> <<"n - 1">>)
              @@ ("even" :> <<"odd(n)">>)
              @@ ("odd(n)" :> <<"n in even">>)
              @@ ("odd" :> <<"even(n)">>)
              @@ ("even(n)" :> <<"n in odd">>),
    exported |-> {},
    init     |-> <<>>,
    stmt     |-> <<>>,
    noStmt   |-> {},
    noBody   |-> {},
    body     |-> <<>>,
    expr     |-> ("fact(n - 1)" :> "Identifier") @@ ("odd(n)" :> "Identifier")
              @@ ("even(n)" :> "Identifier"),
    defs     |-> ("fact(n - 1)" :> <<"fact">>) @@ ("odd(n)" :> <<"odd">>)
              @@ ("even(n)" :> <<"even">>),
    free     |-> {},
    refs     |-> <<>> ]

\* Nested: a recursive function declared inside a method.
\*   class Walker { walk() { function step(n) { return step(next()); } } }
Nested ==
  [ files    |-> << [vars |-> <<>>, funcs |-> <<>>, classes |-> << <<"walk">> >>] >>,
    kind     |-> ("walk" :> "MethodDeclaration")
              @@ ("step" :> "FunctionDeclaration")
              @@ ("step(next())" :> "CallExpression")
              @@ ("next()" :> "CallExpression"),
    children |-> ("walk" :> <<"step">>)
              @@ ("step" :> <<"step(next())">>)
              @@ ("step(next())" :> <<"next()">>),
    exported |-> {},
    init     |-> <<>>,
    stmt     |-> <<>>,
    noStmt   |-> {},
    noBody   |-> {},
    body     |-> <<>>,
    expr     |-> ("step(next())" :> "Identifier") @@ ("next()" :> "Identifier"),
    defs     |-> ("step(next())" :> <<"step">>) @@ ("next()" :> <<>>),
    free     |-> {},
    refs     |-> <<>> ]

\* CrossFile: a method call on an exported object, nested in an argument.
\*   a.ts: function h() { w(foo.m()); }
\*   b.ts: export const foo = new Foo();
CrossFile ==
  [ files    |-> << [vars |-> <<>>, funcs |-> <<"h">>, classes |-> <<>>],
                    [vars |-> <<"foo">>, funcs |-> <<>>, classes |-> <<>>] >>,
    kind     |-> ("h" :> "FunctionDeclaration")
              @@ ("w(foo.m())" :> "CallExpression")
              @@ ("foo.m()" :> "CallExpression")
              @@ ("foo" :> "VariableDeclaration")
              @@ ("const foo = new Foo()" :> "VariableDeclarationList"),
    children |-> ("h" :> <<"w(foo.m())">>)
              @@ ("w(foo.m())" :> <<"foo.m()">>),
    exported |-> {"foo"},
    init     |-> ("foo" :> "NewExpression"),
    stmt     |-> <<>>,
    noStmt   |-> {},
    noBody   |-> {},
    body     |-> <<>>,
    expr     |-> ("w(foo.m())" :> "Identifier")
              @@ ("foo.m()" :> "PropertyAccessExpression"),
    defs     |-> ("w(foo.m())" :> <<>>),
    free     |-> {},
    refs     |-> ("foo" :> << [call |-> "const foo = new Foo()", exprIsTemp |-> FALSE],
                              [call |-> "foo.m()", exprIsTemp |-> TRUE] >>) ]

\* Ambient: declarations that lack a structural element.
\*   a.ts: function go() { ext(); }
\*         declare function ext(): void;   (no body)
\*   b.ts: export let late;                (no initializer)
\*   c.ts: abstract class Shape { abstract area(); }   (no body)
\*   d.ts: a variable declaration for which the Source Model reports no
\*         enclosing variable statement
Ambient ==
  [ files    |-> << [vars |-> <<>>, funcs |-> <<"go", "ext">>, classes |-> <<>>],
                    [vars |-> <<"late">>, funcs |-> <<>>, classes |-> <<>>],
                    [vars |-> <<>>, funcs |-> <<>>, classes |-> << <<"area">> >>],
                    [vars |-> <<"loose">>, funcs |-> <<>>, classes |-> <<>>] >>,
    kind     |-> ("go" :> "FunctionDeclaration")
              @@ ("ext" :> "FunctionDeclaration")
              @@ ("ext()" :> "CallExpression")
              @@ ("late" :> "VariableDeclaration")
              @@ ("area" :> "MethodDeclaration")
              @@ ("loose" :> "VariableDeclaration"),
    children |-> ("go" :> <<"ext()">>),
    exported |-> {"late", "loose"},
    init     |-> ("late" :> "none") @@ ("loose" :> "NumericLiteral"),
    stmt     |-> <<>>,
    noStmt   |-> {"loose"},
    noBody   |-> {"ext", "area"},
    body     |-> <<>>,
    expr     |-> ("ext()" :> "Identifier"),
    defs     |-> ("ext()" :> <<"ext">>),
    free     |-> {},
    refs     |-> <<>> ]

\* Generated: two files whose identifier callees X1 and X2 resolve to any
\* declarations of the program (chosen in Init).
\*   a.ts: export const obj = new Thing();
\*         const priv = function() {};
\*         function f1(p) { return X1(f2()); }
\*   b.ts: function f2() { X2(1); obj.run(); }
Generated ==
  [ files    |-> << [vars |-> <<"obj", "priv">>, funcs |-> <<"f1">>, classes |-> <<>>],
                    [vars |-> <<>>, funcs |-> <<"f2">>, classes |-> <<>>] >>,
    kind     |-> ("obj" :> "VariableDeclaration")
              @@ ("priv" :> "VariableDeclaration")
              @@ ("f1" :> "FunctionDeclaration")
              @@ ("f2" :> "FunctionDeclaration")
              @@ ("p" :> "Parameter")
              @@ ("X1(f2())" :> "CallExpression")
              @@ ("f2()" :> "CallExpression")
              @@ ("X2(1)" :> "CallExpression")
              @@ ("1" :> "NumericLiteral")
              @@ ("obj.run()" :> "CallExpression")
              @@ ("const obj = new Thing()" :> "VariableDeclarationList"),
    children |-> ("f1" :> <<"X1(f2())">>)
              @@ ("X1(f2())" :> <<"f2()">>)
              @@ ("f2" :> <<"X2(1)", "obj.run()">>)
              @@ ("X2(1)" :> <<"1">>),
    exported |-> {"obj"},
    init     |-> ("obj" :> "NewExpression") @@ ("priv" :> "FunctionExpression"),
    stmt     |-> <<>>,
    noStmt   |-> {},
    noBody   |-> {},
    body     |-> <<>>,
    expr     |-> ("X1(f2())" :> "Identifier") @@ ("f2()" :> "Identifier")
              @@ ("X2(1)" :> "Identifier")
              @@ ("obj.run()" :> "PropertyAccessExpression"),
    defs     |-> ("f2()" :> <<"f2">>),
    free     |-> {"X1(f2())", "X2(1)"},
    refs     |-> ("obj" :> << [call |-> "const obj = new Thing()", exprIsTemp |-> FALSE],
                              [call |-> "obj.run()", exprIsTemp |-> TRUE] >>) ]

\* Callable: an exported binding of a non-function value, used as a callee,
\* as the object of a callee, and inside arguments.
\*   export const api = makeApi();
\*   function main() { api(1); api.get(2); use(api); use(api.get); }
Callable ==
  [ files    |-> << [vars |-> <<"api">>, funcs |-> <<"main">>, classes |-> <<>>] >>,
    kind     |-> ("api" :> "VariableDeclaration")
              @@ ("main" :> "FunctionDeclaration")
              @@ ("api(1)" :> "CallExpression")
              @@ ("api.get(2)" :> "CallExpression")
              @@ ("use(api)" :> "CallExpression")
              @@ ("use(api.get)" :> "CallExpression")
              @@ ("lit 1" :> "NumericLiteral")
              @@ ("lit 2" :> "NumericLiteral")
              @@ ("id api" :> "Identifier")
              @@ ("arg api.get" :> "PropertyAccessExpression")
              @@ ("const api = makeApi()" :> "VariableDeclarationList")
              @@ ("api(1);" :> "ExpressionStatement")
              @@ ("use(api);" :> "ExpressionStatement"),
    children |-> ("main" :> <<"api(1)", "api.get(2)", "use(api)", "use(api.get)">>)
              @@ ("api(1)" :> <<"lit 1">>)
              @@ ("api.get(2)" :> <<"lit 2">>)
              @@ ("use(api)" :> <<"id api">>)
              @@ ("use(api.get)" :> <<"arg api.get">>),
    exported |-> {"api"},
    init     |-> ("api" :> "CallExpression"),
    stmt     |-> <<>>,
    noStmt   |-> {},
    noBody   |-> {},
    body     |-> <<>>,
    expr     |-> ("api(1)" :> "Identifier")
              @@ ("api.get(2)" :> "PropertyAccessExpression")
              @@ ("use(api)" :> "Identifier")
              @@ ("use(api.get)" :> "Identifier"),
    defs     |-> ("api(1)" :> <<"api">>) @@ ("use(api)" :> <<>>)
              @@ ("use(api.get)" :> <<>>),
    free     |-> {},
    refs     |-> ("api" :> << [call |-> "const api = makeApi()", exprIsTemp |-> FALSE],
                              [call |-> "api(1);", exprIsTemp |-> FALSE],
                              [call |-> "api.get(2)", exprIsTemp |-> TRUE],
                              [call |-> "use(api);", exprIsTemp |-> FALSE],
                              [call |-> "use(api.get)", exprIsTemp |-> FALSE] >>) ]

\* Concise: an exported arrow function whose body is an expression.
\*   export const twice = (f) => apply(wrap(f));
Concise ==
  [ files    |-> << [vars |-> <<"twice">>, funcs |-> <<>>, classes |-> <<>>] >>,
    kind     |-> ("twice" :> "VariableDeclaration")
              @@ ("apply(wrap(f))" :> "CallExpression")
              @@ ("wrap(f)" :> "CallExpression")
              @@ ("id f" :> "Identifier"),
    children |-> ("twice" :> <<"apply(wrap(f))">>)
              @@ ("apply(wrap(f))" :> <<"wrap(f)">>)
              @@ ("wrap(f)" :> <<"id f">>),
    exported |-> {"twice"},
    init     |-> ("twice" :> "ArrowFunction"),
    stmt     |-> <<>>,
    noStmt   |-> {},
    noBody   |-> {},
    body     |-> ("twice" :> "apply(wrap(f))"),
    expr     |-> ("apply(wrap(f))" :> "Identifier") @@ ("wrap(f)" :> "Identifier"),
    defs     |-> ("apply(wrap(f))" :> <<>>) @@ ("wrap(f)" :> <<>>),
    free     |-> {},
    refs     |-> <<>> ]

\* Callback: a named function expression, passed as an argument, that calls
\* itself by its name.
\*   function run() { later(function tick() { tick(); }); }
Callback ==
  [ files    |-> << [vars |-> <<>>, funcs |-> <<"run">>, classes |-> <<>>] >>,
    kind     |-> ("run" :> "FunctionDeclaration")
              @@ ("later(function tick() { tick(); })" :> "CallExpression")
              @@ ("function tick() { tick(); }" :> "FunctionExpression")
              @@ ("tick()" :> "CallExpression"),
    children |-> ("run" :> <<"later(function tick() { tick(); })">>)
              @@ ("later(function tick() { tick(); })" :> <<"function tick() { tick(); }">>)
              @@ ("function tick() { tick(); }" :> <<"tick()">>),
    exported |-> {},
    init     |-> <<>>,
    stmt     |-> <<>>,
    noStmt   |-> {},
    noBody   |-> {},
    body     |-> <<>>,
    expr     |-> ("later(function tick() { tick(); })" :> "Identifier")
              @@ ("tick()" :> "Identifier"),
    defs     |-> ("later(function tick() { tick(); })" :> <<>>)
              @@ ("tick()" :> <<"function tick() { tick(); }">>),
    free     |-> {},
    refs     |-> <<>> ]

\* The declarations an identifier of Generated may resolve to.
Targets == {"f1", "f2", "obj", "priv", "p"}

Programs ==
  ("Tryaway" :> Tryaway) @@ ("Helper" :> Helper) @@ ("Recursive" :> Recursive)
  @@ ("Nested" :> Nested) @@ ("CrossFile" :> CrossFile) @@ ("Ambient" :> Ambient)
  @@ ("Generated" :> Generated) @@ ("Callable" :> Callable)
  @@ ("Concise" :> Concise) @@ ("Callback" :> Callback)

\* The sequences without repetition over S of length at most n.
RECURSIVE SeqsUpTo(_, _)
SeqsUpTo(S, n) ==
  IF n = 0 THEN {<<>>}
  ELSE LET shorter == SeqsUpTo(S, n - 1)
       IN shorter \cup {Append(s, x) : s \in shorter, x \in S}

DefChoices == {s \in SeqsUpTo(Targets, MaxDefs) :
                 \A i, j \in DOMAIN s : i # j => s[i] # s[j]}

Perms(n) == {s \in [1..n -> 1..n] : \A i, j \in 1..n : i # j => s[i] # s[j]}


VARIABLES
  prog,          \* the analysed program (a name of Programs)
  order,         \* project.getSourceFiles(): the order of the files
  resolve,       \* getDefinitionNodes() of the free identifier callees
  nodes,         \* CodeFlowGraph.nodes: id -> NodeInfo
  nodeToInfo,    \* CodeFlowGraph.nodeToInfo: construct -> NodeInfo (its id)
  edges,         \* CodeFlowGraph.edges: id -> EdgeInfo
  edgeInfo,      \* CodeFlowGraph.edgeInfo: [number, number] -> EdgeInfo
  NEXT_NODE_ID,
  NEXT_EDGE_ID,
  stack,         \* the active method calls, the innermost last
  ret,           \* the value the last returned method call returned
  pc,            \* the position of the script index.ts
  err,           \* the error that ended the script ("" when none)
  document,      \* the data writeToJSON built (<<>> before)
  file,          \* the output file (<<>> until written)
  runs,          \* how many times initialize() was called on this graph
  prev           \* the results of the earlier runs, as sets of constructs

graph == <<nodes, nodeToInfo, edges, edgeInfo, NEXT_NODE_ID, NEXT_EDGE_ID>>
input == <<prog, order, resolve>>
output == <<document, file>>
vars == <<prog, order, resolve, nodes, nodeToInfo, edges, edgeInfo, NEXT_NODE_ID,
          NEXT_EDGE_ID, stack, ret, pc, err, document, file, runs, prev>>

P == Programs[prog]

(***************************************************************************)
(* The Source Model's answers.                                             *)
(***************************************************************************)
getKind(c) == P.kind[c]

isExported(declaration) == declaration \in P.exported

\* getInitializerOrThrow().getKind(), "none" when it throws
getInitializer(declaration) == Lookup(P.init, declaration, "none")

\* getVariableStatementOrThrow().getDeclarations()
getDeclarations(variable) == Lookup(P.stmt, variable, <<variable>>)

\* init.getBody(): a block body is the declaration's content; a body that
\* is an expression is that construct
getBody(declaration) == Lookup(P.body, declaration, declaration)

getArguments(call) == Lookup(P.children, call, <<>>)

getExpressionKind(call) == P.expr[call]

getDefinitionNodes(call) ==
  IF call \in DOMAIN resolve THEN resolve[call] ELSE Lookup(P.defs, call, <<>>)

findReferences(declaration) == Lookup(P.refs, declaration, <<>>)

\* getDescendants(): every node below c, in document order
RECURSIVE getDescendants(_)
getDescendants(c) ==
  LET ch == Lookup(P.children, c, <<>>)
  IN Concat([i \in DOMAIN ch |-> <<ch[i]>> \o getDescendants(ch[i])])

\* getDescendantsOfKind(SyntaxKind.CallExpression)
getCallDescendants(c) ==
  SelectSeq(getDescendants(c), LAMBDA d : getKind(d) = "CallExpression")

(***************************************************************************)
(* The registries.  A NodeInfo or EdgeInfo reference is the object's id.   *)
(***************************************************************************)
G == [nodes |-> nodes, nodeToInfo |-> nodeToInfo, edges |-> edges,
      edgeInfo |-> edgeInfo, NEXT_NODE_ID |-> NEXT_NODE_ID,
      NEXT_EDGE_ID |-> NEXT_EDGE_ID]

\* new CodeFlowGraph()
EmptyGraph == [nodes |-> <<>>, nodeToInfo |-> <<>>, edges |-> <<>>,
               edgeInfo |-> <<>>, NEXT_NODE_ID |-> 0, NEXT_EDGE_ID |-> 0]

NewNodeInfo(node, id, type) ==
  [node |-> node, incoming |-> <<>>, outgoing |-> <<>>, id |-> id, type |-> type]

NewEdgeInfo(source, destination, id, type) ==
  [source |-> source, destination |-> destination, id |-> id, type |-> type]

\* Map.get
MapGet(map, key) == IF key \in DOMAIN map THEN map[key] ELSE Undefined

\* Map.set
MapSet(map, key, value) == (key :> value) @@ map

\* this.edgeInfo.get([source.id, destination.id]): the key is an array made
\* for this call, and a Map compares object keys by identity, so no entry of
\* the map has it (and no code adds an entry).
edgeInfoGet(map, source, destination) ==
  LET key == [fresh |-> TRUE, elems |-> <<source, destination>>]
  IN MapGet(map, key)

\* addNodeIsNew without the lookup: every call makes a node
addNodeIsNew_NoLookup(g, node, type) ==
  [g |-> [g EXCEPT
            !.nodes = MapSet(@, g.NEXT_NODE_ID, NewNodeInfo(node, g.NEXT_NODE_ID, type)),
            !.nodeToInfo = MapSet(@, node, g.NEXT_NODE_ID),
            !.NEXT_NODE_ID = @ + 1],
   node |-> g.NEXT_NODE_ID, isNew |-> TRUE]

\* addNodeIsNew reporting the node it found as new
addNodeIsNew_FoundIsNew(g, node, type) ==
  LET maybeNode == MapGet(g.nodeToInfo, node)
  IN IF maybeNode # Undefined
     THEN [g |-> g, node |-> maybeNode, isNew |-> TRUE]
     ELSE addNodeIsNew_NoLookup(g, node, type)

\* addNodeIsNew giving the node it found the requested type
addNodeIsNew_Retype(g, node, type) ==
  LET maybeNode == MapGet(g.nodeToInfo, node)
  IN IF maybeNode # Undefined
     THEN [g |-> [g EXCEPT !.nodes[maybeNode].type = type],
           node |-> maybeNode, isNew |-> FALSE]
     ELSE addNodeIsNew_NoLookup(g, node, type)

addNodeIsNew(g, node, type) ==
  LET maybeNode == MapGet(g.nodeToInfo, node)
  IN IF maybeNode # Undefined
     THEN [g |-> g, node |-> maybeNode, isNew |-> FALSE]
     ELSE [g |-> [g EXCEPT
                    !.nodes = MapSet(@, g.NEXT_NODE_ID,
                                     NewNodeInfo(node, g.NEXT_NODE_ID, type)),
                    !.nodeToInfo = MapSet(@, node, g.NEXT_NODE_ID),
                    !.NEXT_NODE_ID = @ + 1],
           node |-> g.NEXT_NODE_ID, isNew |-> TRUE]

addNode(g, node, type) == addNodeIsNew(g, node, type)

\* addOutgoing putting the edge first (unshift for push)
addOutgoing_Unshift(ns, id, edge) ==
  IF id \in DOMAIN ns THEN [ns EXCEPT ![id].outgoing = <<edge>> \o @] ELSE ns

addOutgoing(ns, id, edge) ==
  IF id \in DOMAIN ns THEN [ns EXCEPT ![id].outgoing = Append(@, edge)] ELSE ns

\* addIncoming that pushes nothing
addIncoming_Skip(ns, id, edge) == ns

addIncoming(ns, id, edge) ==
  IF id \in DOMAIN ns THEN [ns EXCEPT ![id].incoming = Append(@, edge)] ELSE ns

\* addEdgeIsNew without `this.NEXT_EDGE_ID++`
addEdgeIsNew_NoIncrement(g, source, destination, type) ==
  [g |-> [g EXCEPT
            !.edges = MapSet(@, g.NEXT_EDGE_ID,
                        NewEdgeInfo(source, destination, g.NEXT_EDGE_ID, type)),
            !.nodes = addIncoming(addOutgoing(@, source, g.NEXT_EDGE_ID),
                                  destination, g.NEXT_EDGE_ID)],
   edge |-> g.NEXT_EDGE_ID, isNew |-> TRUE]

addEdgeIsNew(g, source, destination, type) ==
  LET maybeEdge == edgeInfoGet(g.edgeInfo, source, destination)
  IN IF maybeEdge # Undefined
     THEN [g |-> g, edge |-> maybeEdge, isNew |-> FALSE]
     ELSE [g |-> [g EXCEPT
                    !.edges = MapSet(@, g.NEXT_EDGE_ID,
                                NewEdgeInfo(source, destination, g.NEXT_EDGE_ID, type)),
                    !.nodes = addIncoming(addOutgoing(@, source, g.NEXT_EDGE_ID),
                                          destination, g.NEXT_EDGE_ID),
                    !.NEXT_EDGE_ID = @ + 1],
           edge |-> g.NEXT_EDGE_ID, isNew |-> TRUE]

addEdge(g, source, destination, type) == addEdgeIsNew(g, source, destination, type).g


(***************************************************************************)
(* The call stack.  A frame is one active method call: the method, its     *)
(* argument, the node it works on (`source`), its position and its loop    *)
(* index.                                                                  *)
(***************************************************************************)
NewFrame(fn, c) == [fn |-> fn, c |-> c, src |-> Undefined, pc |-> "entry", i |-> 1]

Top == stack[Len(stack)]

Running(fn) == pc = "initialize" /\ stack # <<>> /\ Top.fn = fn

SetGraph(g) ==
  /\ nodes' = g.nodes
  /\ nodeToInfo' = g.nodeToInfo
  /\ edges' = g.edges
  /\ edgeInfo' = g.edgeInfo
  /\ NEXT_NODE_ID' = g.NEXT_NODE_ID
  /\ NEXT_EDGE_ID' = g.NEXT_EDGE_ID

\* the running method goes on at `to`, with source node `src` and index i
Goto(to, src, i) ==
  /\ stack' = [stack EXCEPT ![Len(stack)] = [@ EXCEPT !.pc = to, !.src = src, !.i = i]]
  /\ UNCHANGED <<ret, pc, err>>

\* the running method calls fn(c); when that returns it goes on at `to` with
\* index i
Call(fn, c, to, i) ==
  /\ Len(stack) < MaxDepth
  /\ stack' = Append([stack EXCEPT ![Len(stack)] = [@ EXCEPT !.pc = to, !.i = i]],
                     NewFrame(fn, c))
  /\ UNCHANGED <<ret, pc, err>>

\* the running method returns value
Return(value) ==
  /\ stack' = SubSeq(stack, 1, Len(stack) - 1)
  /\ ret' = value
  /\ UNCHANGED <<pc, err>>

\* an exception that is caught and dropped: the method returns undefined
Throw_Swallowed(e) ==
  /\ stack' = SubSeq(stack, 1, Len(stack) - 1)
  /\ ret' = Undefined
  /\ UNCHANGED <<pc, err>>

\* an exception: nothing catches it, the script ends
Throw(e) ==
  /\ stack' = <<>>
  /\ pc' = "aborted"
  /\ err' = e
  /\ UNCHANGED ret

\* a nested call linked as if it were an argument
scanEdgeType_Argument == "Argument"

\* the edge type of a nested call: EdgeType.Child
scanEdgeType == "Child"

\* for (const call of calls) { callInfo = processCallExpression(call);
\*                             addEdge(source, callInfo, EdgeType.Child); }
\* return source;
ScanCalls(calls) ==
  \/ /\ Top.pc = "loop"
     /\ Top.i <= Len(calls)
     /\ Call("processCallExpression", calls[Top.i], "edge", Top.i)
     /\ UNCHANGED graph
  \/ /\ Top.pc = "edge"
     /\ SetGraph(addEdge(G, Top.src, ret, scanEdgeType))
     /\ Goto("loop", Top.src, Top.i + 1)
  \/ /\ Top.pc = "loop"
     /\ Top.i > Len(calls)
     /\ Return(Top.src)
     /\ UNCHANGED graph

(***************************************************************************)
(* initialize(): per source file processVariables, processFunctions and    *)
(* processClasses (with processClass); the calls they make, in order.      *)
(***************************************************************************)
processVariables(sourceFile) ==
  Concat([v \in DOMAIN sourceFile.vars |->
            IF sourceFile.vars[v] \in P.noStmt
            THEN << [fn |-> "getVariableStatementOrThrow", c |-> sourceFile.vars[v]] >>
            ELSE LET declarations == getDeclarations(sourceFile.vars[v])
                 IN [d \in DOMAIN declarations |->
                       [fn |-> "processVariableDeclaration", c |-> declarations[d]]]])

processFunctions(sourceFile) ==
  [f \in DOMAIN sourceFile.funcs |->
     [fn |-> "processFunctionDeclaration", c |-> sourceFile.funcs[f]]]

processClass(class) ==
  [m \in DOMAIN class |-> [fn |-> "processMethodDeclaration", c |-> class[m]]]

processClasses(sourceFile) ==
  Concat([k \in DOMAIN sourceFile.classes |-> processClass(sourceFile.classes[k])])

initializeCalls ==
  Concat([f \in DOMAIN order |->
            processVariables(P.files[order[f]])
            \o processFunctions(P.files[order[f]])
            \o processClasses(P.files[order[f]])])

\* index.ts: codeflow.initialize()
CallInitialize ==
  /\ pc = "start"
  /\ pc' = "initialize"
  /\ stack' = <<NewFrame("initialize", "project")>>
  /\ runs' = runs + 1
  /\ UNCHANGED <<input, graph, ret, err, output, prev>>

initialize ==
  /\ Running("initialize")
  /\ UNCHANGED <<input, graph, output, runs, prev>>
  /\ LET calls == initializeCalls
     IN \/ /\ Top.i <= Len(calls)
           /\ calls[Top.i].fn # "getVariableStatementOrThrow"
           /\ Call(calls[Top.i].fn, calls[Top.i].c, "entry", Top.i + 1)
        \/ /\ Top.i <= Len(calls)
           /\ calls[Top.i].fn = "getVariableStatementOrThrow"
           /\ Throw("getVariableStatementOrThrow")
        \/ /\ Top.i > Len(calls)
           /\ stack' = <<>>
           /\ pc' = "write"
           /\ UNCHANGED <<ret, err>>

processMethodDeclaration ==
  /\ Running("processMethodDeclaration")
  /\ UNCHANGED <<input, output, runs, prev>>
  /\ \/ /\ Top.pc = "entry"
        /\ LET r == addNodeIsNew(G, Top.c, "Function")
           IN /\ SetGraph(r.g)
              /\ IF ~r.isNew THEN Return(r.node)
                 ELSE IF Top.c \in P.noBody THEN Throw("getBodyOrThrow")
                 ELSE Goto("loop", r.node, 1)
     \/ ScanCalls(getCallDescendants(Top.c))

\* no variable is skipped
skipDeclaration_Never(declaration, export_only) == FALSE

\* export_only && !declaration.isExported()
skipDeclaration(declaration, export_only) == export_only /\ ~isExported(declaration)

\* a call found by the reference search linked as if a body scan found it
referenceEdgeType_Child == "Child"

\* the edge type of a call found by the reference search: EdgeType.Call
referenceEdgeType == "Call"

\* the reference test without the comparison of the call's expression
isCalleeReference_AnyCall(reference) == getKind(reference.call) = "CallExpression"

\* call.getKind() === SyntaxKind.CallExpression && call.getExpression() === temp
isCalleeReference(reference) ==
  getKind(reference.call) = "CallExpression" /\ reference.exprIsTemp

processVariableDeclaration ==
  /\ Running("processVariableDeclaration")
  /\ UNCHANGED <<input, output, runs, prev>>
  /\ LET declaration == Top.c
         export_only == TRUE
         init == getInitializer(declaration)
         functionLike == init \in {"ArrowFunction", "FunctionExpression"}
         references == findReferences(declaration)
     IN \/ /\ Top.pc = "entry"
           /\ IF skipDeclaration(declaration, export_only)
              THEN Return(Undefined) /\ UNCHANGED graph
              ELSE IF init = "none"
              THEN Throw("getInitializerOrThrow") /\ UNCHANGED graph
              ELSE LET r == addNodeIsNew(G, declaration,
                                         IF functionLike THEN "Function" ELSE "Object")
                   IN /\ SetGraph(r.g)
                      /\ IF ~r.isNew THEN Return(r.node)
                         ELSE IF functionLike THEN Goto("loop", r.node, 1)
                         ELSE Goto("refs", r.node, 1)
        \/ /\ Top.pc \in {"loop", "edge"}
           /\ ScanCalls(getCallDescendants(getBody(declaration)))
        \/ /\ Top.pc = "refs"
           /\ Top.i <= Len(references)
           /\ UNCHANGED graph
           /\ LET call == references[Top.i].call
              IN IF isCalleeReference(references[Top.i])
                 THEN Call("processCallExpression", call, "refedge", Top.i)
                 ELSE Goto("refs", Top.src, Top.i + 1)
        \/ /\ Top.pc = "refedge"
           /\ SetGraph(addEdge(G, Top.src, ret, referenceEdgeType))
           /\ Goto("refs", Top.src, Top.i + 1)
        \/ /\ Top.pc = "refs"
           /\ Top.i > Len(references)
           /\ Return(Top.src)
           /\ UNCHANGED graph

\* the call node linked to the definition node itself
spliceOutgoing_ToDefinition(g, source, definitionInfo, j) ==
  addEdge(g, source, definitionInfo, "Child")

\* for (const edge of definitionInfo.outgoing)
\*   this.addEdge(source, edge.destination, EdgeType.Child);
\* from the j-th entry of the list on (the list is read as the loop goes)
RECURSIVE spliceOutgoing(_, _, _, _)
spliceOutgoing(g, source, definitionInfo, j) ==
  IF j > Len(g.nodes[definitionInfo].outgoing) THEN g
  ELSE spliceOutgoing(
         addEdge(g, source,
                 g.edges[g.nodes[definitionInfo].outgoing[j]].destination, "Child"),
         source, definitionInfo, j + 1)

\* no test of the callee's kind
isIdentifierCallee_Always(call) == TRUE

\* expression.getKind() === SyntaxKind.Identifier
isIdentifierCallee(call) == getExpressionKind(call) = "Identifier"

processCallExpression ==
  /\ Running("processCallExpression")
  /\ UNCHANGED <<input, output, runs, prev>>
  /\ LET call == Top.c
         definitions == getDefinitionNodes(call)
         arguments == getArguments(call)
     IN \/ /\ Top.pc = "entry"
           /\ LET r == addNodeIsNew(G, call, "Call")
              IN /\ SetGraph(r.g)
                 /\ IF ~r.isNew THEN Return(r.node)
                    ELSE IF isIdentifierCallee(call)
                    THEN Goto("defs", r.node, 1)
                    ELSE Goto("args", r.node, 1)
        \/ /\ Top.pc = "defs"
           /\ UNCHANGED graph
           /\ IF Top.i <= Len(definitions)
              THEN Call("processDefinition", definitions[Top.i], "splice", Top.i)
              ELSE Goto("args", Top.src, 1)
        \/ /\ Top.pc = "splice"
           /\ IF ret = Undefined
              THEN Throw("TypeError") /\ UNCHANGED graph
              ELSE /\ SetGraph(spliceOutgoing(G, Top.src, ret, 1))
                   /\ Goto("defs", Top.src, Top.i + 1)
        \/ /\ Top.pc = "args"
           /\ UNCHANGED graph
           /\ IF Top.i <= Len(arguments)
              THEN Call("processArgument", arguments[Top.i], "argedge", Top.i)
              ELSE Return(Top.src)
        \/ /\ Top.pc = "argedge"
           /\ SetGraph(addEdge(G, Top.src, ret, "Argument"))
           /\ Goto("args", Top.src, Top.i + 1)

\* processDefinition handing a definition of another kind to processArgument
processDefinition_AsArgument ==
  /\ Running("processDefinition")
  /\ UNCHANGED <<input, output, runs, prev>>
  /\ LET definition == Top.c
     IN \/ /\ Top.pc = "entry"
           /\ getKind(definition) = "VariableDeclaration"
           /\ Call("processVariableDeclaration", definition, "return", Top.i)
           /\ UNCHANGED graph
        \/ /\ Top.pc = "entry"
           /\ getKind(definition) = "FunctionDeclaration"
           /\ Call("processFunctionDeclaration", definition, "return", Top.i)
           /\ UNCHANGED graph
        \/ /\ Top.pc = "entry"
           /\ getKind(definition) \notin {"VariableDeclaration", "FunctionDeclaration"}
           /\ Call("processArgument", definition, "return", Top.i)
           /\ UNCHANGED graph
        \/ /\ Top.pc = "return"
           /\ Return(ret)
           /\ UNCHANGED graph

processDefinition ==
  /\ Running("processDefinition")
  /\ UNCHANGED <<input, output, runs, prev>>
  /\ LET definition == Top.c
     IN \/ /\ Top.pc = "entry"
           /\ getKind(definition) = "VariableDeclaration"
           /\ Call("processVariableDeclaration", definition, "return", Top.i)
           /\ UNCHANGED graph
        \/ /\ Top.pc = "entry"
           /\ getKind(definition) = "FunctionDeclaration"
           /\ Call("processFunctionDeclaration", definition, "return", Top.i)
           /\ UNCHANGED graph
        \/ /\ Top.pc = "entry"
           /\ getKind(definition) \notin {"VariableDeclaration", "FunctionDeclaration"}
           /\ LET r == addNode(G, definition, "Any")
              IN SetGraph(r.g) /\ Return(r.node)
        \/ /\ Top.pc = "return"
           /\ Return(ret)
           /\ UNCHANGED graph

processFunctionDeclaration ==
  /\ Running("processFunctionDeclaration")
  /\ UNCHANGED <<input, output, runs, prev>>
  /\ \/ /\ Top.pc = "entry"
        /\ LET r == addNodeIsNew(G, Top.c, "Function")
           IN /\ SetGraph(r.g)
              /\ IF ~r.isNew THEN Return(r.node)
                 ELSE IF Top.c \in P.noBody THEN Throw("getBodyOrThrow")
                 ELSE Goto("loop", r.node, 1)
     \/ ScanCalls(getCallDescendants(Top.c))

\* processArgument without `if (!isNew) return source;`
processArgument_NoGuard ==
  /\ Running("processArgument")
  /\ UNCHANGED <<input, output, runs, prev>>
  /\ \/ /\ Top.pc = "entry"
        /\ LET r == addNodeIsNew(G, Top.c, "Argument")
           IN SetGraph(r.g) /\ Goto("loop", r.node, 1)
     \/ ScanCalls(getCallDescendants(Top.c))

processArgument ==
  /\ Running("processArgument")
  /\ UNCHANGED <<input, output, runs, prev>>
  /\ \/ /\ Top.pc = "entry"
        /\ LET r == addNodeIsNew(G, Top.c, "Argument")
           IN /\ SetGraph(r.g)
              /\ IF ~r.isNew THEN Return(r.node) ELSE Goto("loop", r.node, 1)
     \/ ScanCalls(getCallDescendants(Top.c))


(***************************************************************************)
(* The serializer.                                                         *)
(***************************************************************************)
nodeTypeToString(nodeType) ==
  CASE nodeType = "Function" -> "Function"
    [] nodeType = "Call" -> "Call"
    [] nodeType = "Argument" -> "Argument"
    [] nodeType = "Object" -> "Object"
    [] nodeType = "Any" -> "Any"
    [] OTHER -> "Error: Unknown NodeType"

edgeTypeToString(edgeType) ==
  CASE edgeType = "Child" -> "Child"
    [] edgeType = "Argument" -> "Argument"
    [] edgeType = "Call" -> "Call"
    [] OTHER -> "Error: Unknown EdgeType"

\* Map.entries(): the values in insertion order, which is the order of the
\* keys since every key set is the next id
Entries(map) ==
  LET position(k) == Cardinality({j \in DOMAIN map : j < k}) + 1
  IN [i \in 1 .. Cardinality(DOMAIN map) |->
        map[CHOOSE k \in DOMAIN map : position(k) = i]]

\* the filter of "outgoing" throws on this node
integrityViolation(g, nodeInfo) ==
  \E i \in DOMAIN nodeInfo.outgoing :
    g.edges[nodeInfo.outgoing[i]].type = "Argument" /\ nodeInfo.type # "Call"

nodeData(g, nodeInfo) ==
  CASE nodeInfo.type = "Function" -> [name |-> nodeInfo.node]
    [] nodeInfo.type = "Call" ->
         [args |-> SelectSeq(nodeInfo.outgoing,
                             LAMBDA e : g.edges[e].type = "Argument")]
    [] nodeInfo.type = "Argument" -> <<>>
    [] nodeInfo.type = "Object" -> [name |-> nodeInfo.node]
    [] nodeInfo.type = "Any" -> <<>>
    [] OTHER -> Undefined

\* nodeToJSON whose "outgoing" keeps the Argument edges
nodeToJSON_NoFilter(g, nodeInfo) ==
  [id |-> nodeInfo.id,
   class |-> nodeTypeToString(nodeInfo.type),
   raw_source |-> nodeInfo.node,
   incoming |-> nodeInfo.incoming,
   outgoing |-> nodeInfo.outgoing,
   node_data |-> nodeData(g, nodeInfo)]

nodeToJSON(g, nodeInfo) ==
  [id |-> nodeInfo.id,
   class |-> nodeTypeToString(nodeInfo.type),
   raw_source |-> nodeInfo.node,
   incoming |-> nodeInfo.incoming,
   outgoing |-> SelectSeq(nodeInfo.outgoing, LAMBDA e : g.edges[e].type # "Argument"),
   node_data |-> nodeData(g, nodeInfo)]

nodesToJSON(g) ==
  LET entries == Entries(g.nodes)
  IN IF \E i \in DOMAIN entries : integrityViolation(g, entries[i])
     THEN [threw |-> TRUE, nodes |-> <<>>]
     ELSE [threw |-> FALSE,
           nodes |-> [i \in DOMAIN entries |-> nodeToJSON(g, entries[i])]]

\* edgesToJSON with the two end points exchanged
edgesToJSON_Swapped(g) ==
  LET entries == Entries(g.edges)
  IN [i \in DOMAIN entries |->
        [id |-> entries[i].id,
         type |-> edgeTypeToString(entries[i].type),
         source_node_id |-> g.nodes[entries[i].destination].id,
         destination_node_id |-> g.nodes[entries[i].source].id,
         label |-> ""]]

edgesToJSON(g) ==
  LET entries == Entries(g.edges)
  IN [i \in DOMAIN entries |->
        [id |-> entries[i].id,
         type |-> edgeTypeToString(entries[i].type),
         source_node_id |-> g.nodes[entries[i].source].id,
         destination_node_id |-> g.nodes[entries[i].destination].id,
         label |-> ""]]

\* writeToJSON called without waiting for initialize() to return
writeToJSON_Early ==
  /\ pc \in {"initialize", "write"}
  /\ UNCHANGED <<input, graph, stack, ret, file, runs, prev>>
  /\ LET json == nodesToJSON(G)
     IN IF json.threw
        THEN /\ pc' = "aborted"
             /\ err' = "cannot have argument edges in non-Call nodes"
             /\ UNCHANGED document
        ELSE /\ pc' = "writing"
             /\ document' = <<[nodes |-> json.nodes, edges |-> edgesToJSON(G)]>>
             /\ UNCHANGED err

\* index.ts: codeflow.writeToJSON(`Tryaway.json`), up to the call of
\* fs.writeFile, which returns at once
writeToJSON ==
  /\ pc = "write"
  /\ UNCHANGED <<input, graph, stack, ret, file, runs, prev>>
  /\ LET json == nodesToJSON(G)
     IN IF json.threw
        THEN /\ pc' = "aborted"
             /\ err' = "cannot have argument edges in non-Call nodes"
             /\ UNCHANGED document
        ELSE /\ pc' = "writing"
             /\ document' = <<[nodes |-> json.nodes, edges |-> edgesToJSON(G)]>>
             /\ UNCHANGED err

\* the callback of fs.writeFile
writeFileCallback ==
  /\ pc = "writing"
  /\ UNCHANGED <<input, graph, stack, ret, document, runs, prev>>
  /\ \E failed \in BOOLEAN :
       IF failed
       THEN pc' = "aborted" /\ err' = "writeFile" /\ UNCHANGED file
       ELSE pc' = "done" /\ file' = document /\ UNCHANGED err

Init ==
  /\ prog \in DOMAIN Programs
  /\ order \in Perms(Len(P.files))
  /\ resolve \in [P.free -> DefChoices]
  /\ nodes = EmptyGraph.nodes
  /\ nodeToInfo = EmptyGraph.nodeToInfo
  /\ edges = EmptyGraph.edges
  /\ edgeInfo = EmptyGraph.edgeInfo
  /\ NEXT_NODE_ID = EmptyGraph.NEXT_NODE_ID
  /\ NEXT_EDGE_ID = EmptyGraph.NEXT_EDGE_ID
  /\ stack = <<>>
  /\ ret = Undefined
  /\ pc = "start"
  /\ err = ""
  /\ document = <<>>
  /\ file = <<>>
  /\ runs = 0
  /\ prev = {}

Next ==
  \/ CallInitialize
  \/ initialize
  \/ processVariableDeclaration
  \/ processFunctionDeclaration
  \/ processMethodDeclaration
  \/ processCallExpression
  \/ processDefinition
  \/ processArgument
  \/ writeToJSON
  \/ writeFileCallback

Spec == Init /\ [][Next]_vars


FairSpec == Spec /\ WF_vars(Next)

(***************************************************************************)
(* Repeated use of the class: initialize() called again on the finished    *)
(* graph, and a second graph built from the same program with the source   *)
(* files in another order.                                                 *)
(***************************************************************************)
\* the graph as constructs: which have a node, of what type, and which
\* (source, destination, type) edges there are
AbstractGraph ==
  [nodes |-> {<<nodes[n].node, nodes[n].type>> : n \in DOMAIN nodes},
   edges |-> {<<nodes[edges[e].source].node, nodes[edges[e].destination].node,
                edges[e].type>> : e \in DOMAIN edges}]

\* codeflow.initialize() once more
initializeAgain ==
  /\ pc = "write"
  /\ runs = 1
  /\ pc' = "initialize"
  /\ stack' = <<NewFrame("initialize", "project")>>
  /\ runs' = 2
  /\ UNCHANGED <<input, graph, ret, err, output, prev>>

\* new CodeFlowGraph() for the same program, its files in another order
NewBuild ==
  /\ pc = "write"
  /\ prev = {}
  /\ prev' = {AbstractGraph}
  /\ order' \in Perms(Len(P.files)) \ {order}
  /\ SetGraph(EmptyGraph)
  /\ pc' = "start"
  /\ runs' = 0
  /\ ret' = Undefined
  /\ UNCHANGED <<prog, resolve, stack, err, output>>

NextRepeat == Next \/ initializeAgain \/ NewBuild

SpecRepeat == Init /\ [][NextRepeat]_vars


(***************************************************************************)
(* Properties.                                                             *)
(***************************************************************************)
Constructs == DOMAIN P.kind

HasEdge(source, destination, type) ==
  \E e \in DOMAIN edges :
    /\ edges[e].source = source
    /\ edges[e].destination = destination
    /\ edges[e].type = type

\* initialize() returned: the graph is finished
Finished == pc \in {"write", "writing", "done"}

\* C1 (node uniqueness): no two nodes stand for the same construct, the
\* construct registry and the node registry agree, and for every construct c
\* and types t1, t2, addNodeIsNew(c, t2) after addNodeIsNew(c, t1) returns the
\* node of the first call with isNew = false and changes nothing (neither the
\* number of nodes nor NEXT_NODE_ID).
NodeUniqueness ==
  /\ \A i, j \in DOMAIN nodes : nodes[i].node = nodes[j].node => i = j
  /\ \A i \in DOMAIN nodes : MapGet(nodeToInfo, nodes[i].node) = i
  /\ \A c \in Constructs : \A t1, t2 \in NodeType :
       LET first == addNodeIsNew(G, c, t1)
           second == addNodeIsNew(first.g, c, t2)
       IN /\ second.node = first.node
          /\ ~second.isNew
          /\ second.g = first.g

\* a processCallExpression has just returned a node that another method made
\* (the call expression was reached a second time)
NodeUniquenessWitness ==
  /\ pc = "initialize" /\ stack # <<>>
  /\ Top.pc = "edge"
  /\ nodes[ret].type = "Argument"

\* C2 (edge pair coalescing), as claimed: at most one edge per ordered pair
\* of nodes.  (The second request for a pair is not recognised either: every
\* addEdgeIsNew call returns isNew = true.)
EdgePairCoalescing ==
  \A e1, e2 \in DOMAIN edges :
    (edges[e1].source = edges[e2].source
       /\ edges[e1].destination = edges[e2].destination) => e1 = e2

\* C3 (Argument-edge type invariant): every Argument edge leaves a Call node,
\* and the integrity check of nodesToJSON never throws.
ArgumentEdgeInvariant ==
  /\ \A e \in DOMAIN edges :
       edges[e].type = "Argument" => nodes[edges[e].source].type = "Call"
  /\ ~nodesToJSON(G).threw
  /\ err # "cannot have argument edges in non-Call nodes"

\* a graph with an Argument edge went through the serializer
ArgumentEdgeWitness ==
  /\ pc = "writing"
  /\ \E e \in DOMAIN edges : edges[e].type = "Argument"
  /\ \E e \in DOMAIN edges : edges[e].type = "Child"

\* C4 (id contiguity): the node ids are 0..NEXT_NODE_ID-1 and the edge ids
\* 0..NEXT_EDGE_ID-1, each object is stored under its own id, and no node id
\* stands for two constructs.
IdContiguity ==
  /\ DOMAIN nodes = 0 .. (NEXT_NODE_ID - 1)
  /\ DOMAIN edges = 0 .. (NEXT_EDGE_ID - 1)
  /\ \A i \in DOMAIN nodes : nodes[i].id = i
  /\ \A i \in DOMAIN edges : edges[i].id = i
  /\ Cardinality(DOMAIN nodeToInfo) = NEXT_NODE_ID
  /\ \A c \in DOMAIN nodeToInfo : nodes[nodeToInfo[c]].node = c

IdContiguityWitness == NEXT_NODE_ID >= 4 /\ NEXT_EDGE_ID >= 4


ExpandOps ==
  {"processMethodDeclaration", "processVariableDeclaration", "processCallExpression",
   "processFunctionDeclaration", "processArgument"}

ProcessOps == ExpandOps \cup {"processDefinition"}

Popped == SubSeq(stack, 1, Len(stack) - 1)

BuildEnded == pc \in {"write", "writing", "done", "aborted"}

\* the running method goes from its isNew test on to its expansion
ExpansionStarts ==
  /\ pc = "initialize" /\ stack # <<>>
  /\ Top.fn \in ExpandOps
  /\ Top.pc = "entry"
  /\ Len(stack') = Len(stack)
  /\ stack'[Len(stack)].pc # "entry"

\* C5 (termination on cyclic code): every build ends (initialize() returns or
\* throws), and a construct is expanded only in the step that gives it its
\* node, which it keeps: so it is expanded at most once.
TerminationOnCycles ==
  /\ <>BuildEnded
  /\ [][/\ ExpansionStarts =>
             (Top.c \notin DOMAIN nodeToInfo /\ Top.c \in DOMAIN nodeToInfo')
        /\ DOMAIN nodeToInfo \subseteq DOMAIN nodeToInfo']_vars

\* the build of the self-recursive and mutually recursive functions returned
TerminationWitness ==
  /\ prog = "Recursive" /\ pc = "write"
  /\ {"fact", "fact(n - 1)", "even", "odd(n)", "odd", "even(n)"} \subseteq DOMAIN nodeToInfo

\* C6 (Scenario A), as claimed: for bar(x, callback) { return
\* callback(callback(x)); } the finished graph has a Function node for bar,
\* Call nodes for the outer and the inner call, Child edges from bar to both,
\* an Argument node linked from the outer call by an Argument edge, and a
\* Child edge from that Argument node to the inner Call node.
ScenarioA ==
  (prog = "Tryaway" /\ Finished) =>
    \E b, o, i, a \in DOMAIN nodes :
      /\ nodes[b].node = "bar" /\ nodes[b].type = "Function"
      /\ nodes[o].node = "callback(callback(x))" /\ nodes[o].type = "Call"
      /\ nodes[i].node = "callback(x)" /\ nodes[i].type = "Call"
      /\ HasEdge(b, o, "Child")
      /\ HasEdge(b, i, "Child")
      /\ nodes[a].type = "Argument"
      /\ HasEdge(o, a, "Argument")
      /\ HasEdge(a, i, "Child")

\* C7 (Scenario B, property-access callee): a Call node whose callee is not
\* an identifier has only Argument edges going out, the k-th to the node of
\* its k-th argument, and in the finished graph one per argument; no
\* definition is processed on its behalf; and for foo.bar(5, double) the
\* finished graph has the Object node of foo, a Call edge from it to the Call
\* node of the call, and Argument edges from that to the Argument nodes of
\* `5` and `double`.
PropertyAccessCallee ==
  /\ \A n \in DOMAIN nodes :
       (nodes[n].type = "Call" /\ getExpressionKind(nodes[n].node) # "Identifier") =>
         LET out == nodes[n].outgoing
             arguments == getArguments(nodes[n].node)
         IN /\ Len(out) <= Len(arguments)
            /\ \A k \in DOMAIN out :
                 /\ edges[out[k]].type = "Argument"
                 /\ edges[out[k]].destination = MapGet(nodeToInfo, arguments[k])
            /\ Finished => Len(out) = Len(arguments)
  /\ \A k \in 1 .. (Len(stack) - 1) :
       (stack[k].fn = "processCallExpression"
          /\ getExpressionKind(stack[k].c) # "Identifier")
         => stack[k + 1].fn # "processDefinition"
  /\ (prog = "Tryaway" /\ Finished) =>
       \E f, c, a1, a2 \in DOMAIN nodes :
         /\ nodes[f].node = "foo" /\ nodes[f].type = "Object"
         /\ nodes[c].node = "foo.bar(5, double)" /\ nodes[c].type = "Call"
         /\ HasEdge(f, c, "Call")
         /\ nodes[a1].node = "5" /\ nodes[a1].type = "Argument"
         /\ nodes[a2].node = "id double" /\ nodes[a2].type = "Argument"
         /\ HasEdge(c, a1, "Argument")
         /\ HasEdge(c, a2, "Argument")
         /\ Len(nodes[c].outgoing) = 2

\* the finished graph of foo.bar(5, double)
PropertyAccessWitness ==
  /\ prog = "Tryaway" /\ Finished
  /\ "foo.bar(5, double)" \in DOMAIN nodeToInfo
  /\ Len(nodes[nodeToInfo["foo.bar(5, double)"]].outgoing) = 2

\* C8 (exported-only pruning): processVariableDeclaration of a variable that
\* is not exported returns undefined and changes no registry, and no node
\* ever stands for such a variable.
ExportedOnlyPruning ==
  /\ [](\A n \in DOMAIN nodes :
          getKind(nodes[n].node) = "VariableDeclaration" => nodes[n].node \in P.exported)
  /\ [][(Running("processVariableDeclaration") /\ Top.pc = "entry"
           /\ Top.c \notin P.exported)
          => (ret' = Undefined /\ stack' = Popped /\ UNCHANGED graph)]_vars

\* the finished graph of a program with a variable that is not exported
ExportedOnlyWitness ==
  /\ prog = "Helper" /\ pc = "done"
  /\ "main" \in DOMAIN nodeToInfo
  /\ "helper" \notin DOMAIN nodeToInfo

\* C9 (order independence), as claimed: a second build of the same program
\* with the files in another order yields the same constructs with nodes, the
\* same node types and the same (source, destination, type) edges.
OrderIndependence == (pc = "write" /\ prev # {}) => AbstractGraph \in prev

\* a process method is entered for a construct that has a node
Revisit ==
  /\ pc = "initialize" /\ stack # <<>>
  /\ Top.fn \in ProcessOps
  /\ Top.pc = "entry"
  /\ Top.c \in DOMAIN nodeToInfo

\* C10 (idempotence): a process method entered for a construct that has a
\* node returns that node and changes no registry (processDefinition by
\* handing the construct to the method of its kind and returning what that
\* returns), and a second initialize() on the finished graph changes no
\* registry.
Idempotence ==
  [][/\ Revisit =>
          /\ UNCHANGED graph
          /\ \/ stack' = Popped /\ ret' = nodeToInfo[Top.c]
             \/ /\ Top.fn = "processDefinition"
                /\ Len(stack') = Len(stack) + 1
                /\ stack'[Len(stack')].c = Top.c
                /\ stack'[Len(stack')].pc = "entry"
                /\ stack'[Len(stack)].pc = "return"
     /\ (pc = "initialize" /\ stack # <<>> /\ Top.fn = "processDefinition"
           /\ Top.pc = "return") => (ret' = ret /\ stack' = Popped)
     /\ (runs = 2 /\ pc = "initialize") => UNCHANGED graph]_vars

\* the second initialize() on a finished graph returned
IdempotenceWitness ==
  /\ runs = 2 /\ pc = "write"
  /\ NEXT_NODE_ID >= 4 /\ NEXT_EDGE_ID >= 4

\* the errors of getVariableStatementOrThrow, getInitializerOrThrow and
\* getBodyOrThrow
StructuralErrors ==
  {"getVariableStatementOrThrow", "getInitializerOrThrow", "getBodyOrThrow"}

IntegrityError == "cannot have argument edges in non-Call nodes"

\* every variable declaration has its statement and its initializer, every
\* function and method its body
WellFormed ==
  /\ P.noStmt = {}
  /\ P.noBody = {}
  /\ \A f \in DOMAIN P.files : \A v \in DOMAIN P.files[f].vars :
       \A d \in DOMAIN getDeclarations(P.files[f].vars[v]) :
         getInitializer(getDeclarations(P.files[f].vars[v])[d]) # "none"

\* initialize() threw
InitializeFailed == pc = "aborted" /\ document = <<>> /\ err # IntegrityError

\* C11 (two error kinds only), as claimed: a build or a serialization aborts
\* only with a structural precondition failure or with the Argument-edge
\* integrity violation, and on a program whose declarations all have their
\* statement, initializer and body initialize() does not throw (a callee
\* resolving to a variable that is not exported included).
OnlyTwoErrorKinds ==
  /\ InitializeFailed => err \in StructuralErrors
  /\ WellFormed => ~InitializeFailed

\* the running method is at a declaration that lacks its statement, its
\* initializer or its body
MissingElement ==
  /\ pc = "initialize" /\ stack # <<>>
  /\ \/ /\ Top.fn = "initialize"
        /\ Top.i <= Len(initializeCalls)
        /\ initializeCalls[Top.i].fn = "getVariableStatementOrThrow"
     \/ /\ Top.fn \in {"processFunctionDeclaration", "processMethodDeclaration"}
        /\ Top.pc = "entry"
        /\ Top.c \in P.noBody
        /\ Top.c \notin DOMAIN nodeToInfo
     \/ /\ Top.fn = "processVariableDeclaration"
        /\ Top.pc = "entry"
        /\ isExported(Top.c)
        /\ getInitializer(Top.c) = "none"

\* C12 (structural failure is fatal, no partial output): the step that meets
\* a variable declaration without statement or initializer, or a function or
\* method without body, ends the script with that error and no active call;
\* after an abort no step is taken (no later declaration is processed); and
\* whenever a structural error was raised there is no document and no file.
StructuralFailureFatal ==
  /\ [](err \in StructuralErrors =>
          (pc = "aborted" /\ stack = <<>> /\ document = <<>> /\ file = <<>>))
  /\ [][/\ MissingElement =>
             (pc' = "aborted" /\ err' \in StructuralErrors /\ stack' = <<>>
                /\ UNCHANGED output)
        /\ pc = "aborted" => FALSE]_vars

\* the build stopped at a function without body, after other constructs got
\* their nodes and before the method of a later file was processed
StructuralFailureWitness ==
  /\ pc = "aborted" /\ err = "getBodyOrThrow"
  /\ "ext()" \in DOMAIN nodeToInfo
  /\ "area" \notin DOMAIN nodeToInfo

IsPrefix(s, t) == Len(s) <= Len(t) /\ SubSeq(t, 1, Len(s)) = s

\* C13 (monotonic lifecycle): in every step of a build each node and each
\* edge stays in its registry, a node keeps its id, type and construct, an
\* edge keeps its id, type, source and destination, and a node's incoming
\* and outgoing lists only grow at the end.
MonotonicLifecycle ==
  [][/\ DOMAIN nodes \subseteq DOMAIN nodes'
     /\ \A n \in DOMAIN nodes :
          /\ nodes'[n].id = nodes[n].id
          /\ nodes'[n].type = nodes[n].type
          /\ nodes'[n].node = nodes[n].node
          /\ IsPrefix(nodes[n].incoming, nodes'[n].incoming)
          /\ IsPrefix(nodes[n].outgoing, nodes'[n].outgoing)
     /\ DOMAIN edges \subseteq DOMAIN edges'
     /\ \A e \in DOMAIN edges : edges'[e] = edges[e]
     /\ DOMAIN nodeToInfo \subseteq DOMAIN nodeToInfo'
     /\ \A c \in DOMAIN nodeToInfo : nodeToInfo'[c] = nodeToInfo[c]]_vars

\* a node, made early, whose outgoing list and whose incoming list each grew
\* more than once
MonotonicLifecycleWitness ==
  \E n, m \in DOMAIN nodes :
    /\ Len(nodes[n].outgoing) >= 3
    /\ Len(nodes[m].incoming) >= 2
    /\ NEXT_NODE_ID >= n + 3

\* every call initialize() makes has been made and has returned
InitializeCompleted ==
  /\ pc = "initialize"
  /\ Len(stack) = 1
  /\ Top.fn = "initialize"
  /\ Top.i > Len(initializeCalls)

\* the document lists every node and every edge of the registries, under
\* their ids, types and end points
ProjectionOf(doc) ==
  /\ Len(doc.nodes) = Cardinality(DOMAIN nodes)
  /\ Len(doc.edges) = Cardinality(DOMAIN edges)
  /\ \A n \in DOMAIN nodes : \E i \in DOMAIN doc.nodes :
       /\ doc.nodes[i].id = n
       /\ doc.nodes[i].class = nodes[n].type
       /\ doc.nodes[i].raw_source = nodes[n].node
       /\ doc.nodes[i].incoming = nodes[n].incoming
  /\ \A e \in DOMAIN edges : \E i \in DOMAIN doc.edges :
       /\ doc.edges[i].id = e
       /\ doc.edges[i].type = edges[e].type
       /\ doc.edges[i].source_node_id = edges[e].source
       /\ doc.edges[i].destination_node_id = edges[e].destination

\* C14 (build before serialize): writeToJSON runs only after initialize()
\* made its last call and returned; the document is built in that one step,
\* before the write completes, from the registries as they are; from then on
\* no node and no edge is created; so the document, and the file written from
\* it, is the projection of the complete graph.
BuildBeforeSerialize ==
  /\ [](document # <<>> =>
          (pc \in {"writing", "done", "aborted"} /\ stack = <<>>
             /\ ProjectionOf(document[1])))
  /\ [](file # <<>> => (pc = "done" /\ file = document))
  /\ [][/\ (pc # "write" /\ pc' = "write") => InitializeCompleted
        /\ (document = <<>> /\ document' # <<>>) => (pc = "write" /\ file' = <<>>)
        /\ pc \in {"write", "writing", "done"} => UNCHANGED <<graph, stack>>
        /\ document # <<>> => document' = document]_vars

\* the file of a graph with several nodes and edges was written
BuildBeforeSerializeWitness ==
  /\ pc = "done" /\ file # <<>>
  /\ Len(file[1].nodes) >= 4 /\ Len(file[1].edges) >= 4

\* the Call nodes whose callee is an identifier (processCallExpression
\* resolved the callee for each of them)
ResolvedCalls ==
  {c \in DOMAIN nodes :
     nodes[c].type = "Call" /\ getExpressionKind(nodes[c].node) = "Identifier"}

\* the nodes of the declarations the callee of call node c resolves to
DefinitionsOf(c) ==
  LET definitions == getDefinitionNodes(nodes[c].node)
  IN {nodeToInfo[definitions[i]] :
        i \in {j \in DOMAIN definitions : definitions[j] \in DOMAIN nodeToInfo}}

\* C15 (flattening completeness), as claimed: in the finished graph a call
\* node with an identifier callee has a Child edge to every destination of an
\* outgoing Child edge of each definition node of its callee, recursive
\* callees included.
FlatteningCompleteness ==
  Finished =>
    \A c \in ResolvedCalls : \A d \in DefinitionsOf(c) :
      \A k \in DOMAIN nodes[d].outgoing :
        edges[nodes[d].outgoing[k]].type = "Child" =>
          HasEdge(c, edges[nodes[d].outgoing[k]].destination, "Child")

\* C16 (flattening copies only Child edges), as claimed: in the finished
\* graph every Child edge from a call node with an identifier callee leads to
\* the destination of an outgoing Child edge of one of the callee's
\* definition nodes; an outgoing Call or Argument edge of a definition node
\* gives the call node no edge.
FlatteningChildOnly ==
  Finished =>
    \A c \in ResolvedCalls : \A k \in DOMAIN nodes[c].outgoing :
      edges[nodes[c].outgoing[k]].type = "Child" =>
        \E d \in DefinitionsOf(c) :
          HasEdge(d, edges[nodes[c].outgoing[k]].destination, "Child")

\* the call expressions textually nested, at any depth, in the body (or
\* initializer) of declaration c
RECURSIVE NestedCalls(_)
NestedCalls(c) ==
  LET ch == Lookup(P.children, c, <<>>)
  IN UNION {{x \in {ch[i]} : P.kind[x] = "CallExpression"} \cup NestedCalls(ch[i]) :
              i \in DOMAIN ch}

\* C17 (body-scan completeness), as claimed: in the finished graph a
\* Function node has a Child edge to the node of every call expression nested
\* at any depth in the function's body, and no other outgoing edge.
BodyScanCompleteness ==
  Finished =>
    \A n \in DOMAIN nodes :
      nodes[n].type = "Function" =>
        LET out == nodes[n].outgoing
            calls == NestedCalls(nodes[n].node)
        IN /\ \A x \in calls :
                x \in DOMAIN nodeToInfo /\ HasEdge(n, nodeToInfo[x], "Child")
           /\ \A k \in DOMAIN out :
                /\ edges[out[k]].type = "Child"
                /\ nodes[edges[out[k]].destination].node \in calls

\* the Object nodes: the exported variables bound to a non-function value
ObjectNodes == {o \in DOMAIN nodes : nodes[o].type = "Object"}

\* the call expressions whose callee expression is the parent of a usage of
\* variable v (v is the object of a property-access callee: v.m(...))
ReceiverCalls(v) ==
  LET references == findReferences(v)
  IN {references[i].call :
        i \in {j \in DOMAIN references :
                 /\ P.kind[references[j].call] = "CallExpression"
                 /\ references[j].exprIsTemp}}

\* the call expressions whose callee is a usage of variable v itself: v(...)
DirectCalls(v) ==
  {c \in DOMAIN P.expr :
     /\ P.expr[c] = "Identifier"
     /\ \E i \in DOMAIN getDefinitionNodes(c) : getDefinitionNodes(c)[i] = v}

\* C18 (object usage rule), as claimed: in the finished graph an Object node
\* has a Call edge to the node of every call expression in which a usage of
\* its binding is in callee position, as the object of a property-access
\* callee or as the callee itself, and to no other call.
ObjectUsageRule ==
  Finished =>
    \A o \in ObjectNodes :
      LET callees == ReceiverCalls(nodes[o].node) \cup DirectCalls(nodes[o].node)
      IN /\ \A c \in callees :
              c \in DOMAIN nodeToInfo /\ HasEdge(o, nodeToInfo[c], "Call")
         /\ \A k \in DOMAIN nodes[o].outgoing :
              /\ edges[nodes[o].outgoing[k]].type = "Call"
              /\ nodes[edges[nodes[o].outgoing[k]].destination].node \in callees

\* C18, amended: an Object node's outgoing edges are Call edges to calls whose
\* callee expression is the parent of a usage of the binding (foo.bar(...)),
\* in the finished graph one to every such call; a call whose callee is the
\* usage itself (foo(...)) gets no edge from the Object node, and neither
\* does a call where the usage is only in an argument.
ObjectReceiverRule ==
  \A o \in ObjectNodes :
    LET receivers == ReceiverCalls(nodes[o].node)
    IN /\ \A k \in DOMAIN nodes[o].outgoing :
            /\ edges[nodes[o].outgoing[k]].type = "Call"
            /\ nodes[edges[nodes[o].outgoing[k]].destination].node \in receivers
       /\ Finished =>
            /\ \A c \in receivers :
                 c \in DOMAIN nodeToInfo /\ HasEdge(o, nodeToInfo[c], "Call")
            /\ Len(nodes[o].outgoing) = Cardinality(receivers)
       /\ \A c \in DirectCalls(nodes[o].node) \ receivers :
            c \in DOMAIN nodeToInfo => \A t \in EdgeType : ~HasEdge(o, nodeToInfo[c], t)

\* the finished graph of a binding used as callee, as object of a callee and
\* in arguments, all those calls having nodes
ObjectReceiverWitness ==
  /\ prog = "Callable" /\ Finished
  /\ {"api(1)", "api.get(2)", "use(api)", "use(api.get)"} \subseteq DOMAIN nodeToInfo
  /\ Len(nodes[nodeToInfo["api"]].outgoing) = 1

\* the incoming list of the node of construct c (empty before it has one)
IncomingOf(ns, map, c) == IF c \in DOMAIN map THEN ns[map[c]].incoming ELSE <<>>

\* C19 (a call node never points at the callee's declaration): no edge leads
\* from a call node with an identifier callee to the node of a declaration
\* the callee resolves to, and while such a call is being processed the
\* incoming list of each such declaration's node stays as it is (empty when
\* the node is made during the processing).
NoEdgeToDefinition ==
  /\ [](\A c \in ResolvedCalls : \A d \in DefinitionsOf(c) :
          \A t \in EdgeType : ~HasEdge(c, d, t))
  /\ [][\A k \in DOMAIN stack :
          (stack[k].fn = "processCallExpression" /\ isIdentifierCallee(stack[k].c)) =>
            \A i \in DOMAIN getDefinitionNodes(stack[k].c) :
              IncomingOf(nodes', nodeToInfo', getDefinitionNodes(stack[k].c)[i])
                = IncomingOf(nodes, nodeToInfo, getDefinitionNodes(stack[k].c)[i])]_vars

\* a finished graph in which a call node took over Child edges of its
\* callee's definition node
NoEdgeToDefinitionWitness ==
  /\ Finished
  /\ \E c \in ResolvedCalls : \E d \in DefinitionsOf(c) :
       /\ Len(nodes[d].outgoing) >= 2
       /\ \E k \in DOMAIN nodes[c].outgoing : edges[nodes[c].outgoing[k]].type = "Child"

\* how many times x occurs in sequence s
Occurrences(s, x) == Cardinality({i \in DOMAIN s : s[i] = x})

StrictlyIncreasing(s) == \A i, j \in DOMAIN s : i < j => s[i] < s[j]

\* C20 (adjacency consistency): every registered edge occurs once in its
\* source's outgoing list, once in its destination's incoming list and in no
\* other list; every entry of a list is a registered edge that leaves
\* (outgoing) or reaches (incoming) that node; every list is in strictly
\* increasing order of edge ids.
AdjacencyConsistency ==
  /\ \A e \in DOMAIN edges :
       /\ edges[e].source \in DOMAIN nodes
       /\ edges[e].destination \in DOMAIN nodes
       /\ \A n \in DOMAIN nodes :
            /\ Occurrences(nodes[n].outgoing, e) = IF n = edges[e].source THEN 1 ELSE 0
            /\ Occurrences(nodes[n].incoming, e) =
                 IF n = edges[e].destination THEN 1 ELSE 0
  /\ \A n \in DOMAIN nodes :
       /\ \A k \in DOMAIN nodes[n].outgoing :
            /\ nodes[n].outgoing[k] \in DOMAIN edges
            /\ edges[nodes[n].outgoing[k]].source = n
       /\ \A k \in DOMAIN nodes[n].incoming :
            /\ nodes[n].incoming[k] \in DOMAIN edges
            /\ edges[nodes[n].incoming[k]].destination = n
       /\ StrictlyIncreasing(nodes[n].outgoing)
       /\ StrictlyIncreasing(nodes[n].incoming)

\* a graph with two edges between one pair of nodes, a node with several
\* incoming and a node with several outgoing edges
AdjacencyConsistencyWitness ==
  /\ \E e1, e2 \in DOMAIN edges :
       /\ e1 # e2
       /\ edges[e1].source = edges[e2].source
       /\ edges[e1].destination = edges[e2].destination
  /\ \E n \in DOMAIN nodes : Len(nodes[n].incoming) >= 3
  /\ \E n \in DOMAIN nodes : Len(nodes[n].outgoing) >= 3

\* the elements of a sequence
Elems(s) == {s[i] : i \in DOMAIN s}

\* s lists exactly the members of S, each once, in increasing order (edge
\* ids grow with insertion, so this is insertion order)
ListsInOrder(s, S) ==
  /\ Elems(s) = S
  /\ Len(s) = Cardinality(S)
  /\ \A i, j \in DOMAIN s : i < j => s[i] < s[j]

\* the serialized node of node n in document doc
SerializedNode(doc, n) == doc.nodes[CHOOSE i \in DOMAIN doc.nodes : doc.nodes[i].id = n]

\* C21 (serializer partition): in the document every node's `outgoing` is
\* the ids of its outgoing edges that are not Argument edges and its
\* `incoming` the ids of all its incoming edges, in insertion order; a Call
\* node's `args` is the ids of its outgoing Argument edges in insertion
\* order, so `outgoing` and `args` are disjoint and together all its outgoing
\* edges; Function and Object nodes carry a name, Argument and Any nodes an
\* empty payload.
SerializerPartition ==
  document # <<>> =>
    \A n \in DOMAIN nodes :
      LET json == SerializedNode(document[1], n)
          out == Elems(nodes[n].outgoing)
      IN /\ \E i \in DOMAIN document[1].nodes : document[1].nodes[i].id = n
         /\ json.class = nodes[n].type
         /\ ListsInOrder(json.outgoing, {e \in out : edges[e].type # "Argument"})
         /\ json.incoming = nodes[n].incoming
         /\ \A e \in DOMAIN edges :
              (edges[e].destination = n) <=> (e \in Elems(json.incoming))
         /\ nodes[n].type = "Call" =>
              /\ DOMAIN json.node_data = {"args"}
              /\ ListsInOrder(json.node_data.args,
                              {e \in out : edges[e].type = "Argument"})
              /\ Elems(json.node_data.args) \cap Elems(json.outgoing) = {}
              /\ Elems(json.node_data.args) \cup Elems(json.outgoing) = out
         /\ nodes[n].type \in {"Function", "Object"} =>
              json.node_data = [name |-> nodes[n].node]
         /\ nodes[n].type \in {"Argument", "Any"} => json.node_data = <<>>

\* a document with a Call node that has both spliced Child edges and
\* Argument edges, and with an Object node
SerializerPartitionWitness ==
  /\ document # <<>>
  /\ \E i \in DOMAIN document[1].nodes :
       /\ document[1].nodes[i].class = "Call"
       /\ document[1].nodes[i].outgoing # <<>>
       /\ document[1].nodes[i].node_data.args # <<>>
  /\ \E i \in DOMAIN document[1].nodes : document[1].nodes[i].class = "Object"

\* a definition that is neither a variable nor a function declaration
OtherDefinition(c) ==
  P.kind[c] \notin {"VariableDeclaration", "FunctionDeclaration"}

AnyNodesHaveNoOutgoing ==
  \A n \in DOMAIN nodes : nodes[n].type = "Any" => nodes[n].outgoing = <<>>

\* C22 (Any nodes are leaves), as claimed: the node of a definition resolved
\* from an identifier callee, when the definition is neither a variable nor a
\* function declaration, has type Any and is not expanded; every Any node has
\* an empty outgoing list.
AnyNodesAreLeaves ==
  /\ AnyNodesHaveNoOutgoing
  /\ \A c \in ResolvedCalls : \A d \in DefinitionsOf(c) :
       OtherDefinition(nodes[d].node) =>
         (nodes[d].type = "Any" /\ nodes[d].outgoing = <<>>)

\* C22, amended: processDefinition of a definition that is neither a variable
\* nor a function declaration returns in one step, without any call; when the
\* definition has no node yet it gets one of type Any with empty lists, when
\* it has one that node is returned as it is; every Any node has an empty
\* outgoing list.
AnyNodesAreLeavesUnlessRegistered ==
  /\ []AnyNodesHaveNoOutgoing
  /\ [][(Running("processDefinition") /\ Top.pc = "entry" /\ OtherDefinition(Top.c)) =>
          /\ stack' = Popped
          /\ Top.c \in DOMAIN nodeToInfo'
          /\ ret' = nodeToInfo'[Top.c]
          /\ IF Top.c \in DOMAIN nodeToInfo
             THEN UNCHANGED graph
             ELSE /\ nodes'[ret'] = NewNodeInfo(Top.c, NEXT_NODE_ID, "Any")
                  /\ UNCHANGED edges]_vars

\* the finished graph of a program in which a callee resolved to a parameter
AnyNodesWitness ==
  /\ prog = "Tryaway" /\ Finished
  /\ "param callback" \in DOMAIN nodeToInfo
  /\ nodes[nodeToInfo["param callback"]].type = "Any"
  /\ nodes[nodeToInfo["param callback"]].incoming = <<>>

\* the node type a method call gives the construct it registers
KindOf(frame) ==
  CASE frame.fn \in {"processMethodDeclaration", "processFunctionDeclaration"} -> "Function"
    [] frame.fn = "processVariableDeclaration" ->
         IF getInitializer(frame.c) \in {"ArrowFunction", "FunctionExpression"}
         THEN "Function" ELSE "Object"
    [] frame.fn = "processCallExpression" -> "Call"
    [] frame.fn = "processArgument" -> "Argument"
    [] OTHER -> "Any"

\* a method is entered for a construct whose node has another type than the
\* method would give it
SecondVisitAsOtherKind ==
  /\ pc = "initialize" /\ stack # <<>>
  /\ \/ Top.fn \in ExpandOps
     \/ Top.fn = "processDefinition" /\ OtherDefinition(Top.c)
  /\ Top.pc = "entry"
  /\ Top.c \in DOMAIN nodeToInfo
  /\ nodes[nodeToInfo[Top.c]].type # KindOf(Top)

\* C23 (first registration fixes type and expansion): a method entered for a
\* construct that has a node of another type returns that node in the same
\* step and leaves every registry as it is (the type stays, no definition is
\* resolved, no argument node and no edge is made); so a call expression
\* registered as an Argument never gets an outgoing Argument edge, and its
\* arguments get nodes only if something else registers them.
FirstRegistrationFixes ==
  /\ [][SecondVisitAsOtherKind =>
          (UNCHANGED graph /\ stack' = Popped /\ ret' = nodeToInfo[Top.c])]_vars
  /\ [](\A n \in DOMAIN nodes :
          (nodes[n].type = "Argument" /\ P.kind[nodes[n].node] = "CallExpression") =>
            /\ \A k \in DOMAIN nodes[n].outgoing :
                 /\ edges[nodes[n].outgoing[k]].type = "Child"
                 /\ nodes[edges[nodes[n].outgoing[k]].destination].node
                      \in NestedCalls(nodes[n].node)
            /\ Len(nodes[n].outgoing) <= Cardinality(NestedCalls(nodes[n].node)))

\* the finished graph of callback(callback(x)): the inner call was registered
\* as an argument, reached again by the body scan, and its own argument x
\* has no node
FirstRegistrationWitness ==
  /\ prog = "Tryaway" /\ Finished
  /\ "callback(x)" \in DOMAIN nodeToInfo
  /\ nodes[nodeToInfo["callback(x)"]].type = "Argument"
  /\ Len(nodes[nodeToInfo["callback(x)"]].incoming) = 2
  /\ "x" \notin DOMAIN nodeToInfo

\* the types of the outgoing edges of node n
OutgoingTypes(n) == {edges[nodes[n].outgoing[k]].type : k \in DOMAIN nodes[n].outgoing}

\* C24 (the source node's type determines the edge type): a Call edge leaves
\* an Object node and an Object node has only Call edges going out; a Child
\* edge leaves a Function, Call or Argument node; a Function or Argument node
\* has only Child edges going out; a Call node only Child and Argument edges.
EdgeTypeBySource ==
  /\ \A e \in DOMAIN edges :
       /\ edges[e].type = "Call" => nodes[edges[e].source].type = "Object"
       /\ edges[e].type = "Child" =>
            nodes[edges[e].source].type \in {"Function", "Call", "Argument"}
  /\ \A n \in DOMAIN nodes :
       /\ nodes[n].type = "Object" => OutgoingTypes(n) \subseteq {"Call"}
       /\ nodes[n].type \in {"Function", "Argument"} => OutgoingTypes(n) \subseteq {"Child"}
       /\ nodes[n].type = "Call" => OutgoingTypes(n) \subseteq {"Child", "Argument"}

\* a finished graph with edges of the three types: Call edges leaving an
\* Object node, Child edges a Function node, both Child and Argument edges a
\* Call node
EdgeTypeBySourceWitness ==
  /\ Finished
  /\ \E n \in DOMAIN nodes : nodes[n].type = "Object" /\ OutgoingTypes(n) = {"Call"}
  /\ \E n \in DOMAIN nodes : nodes[n].type = "Function" /\ OutgoingTypes(n) = {"Child"}
  /\ \E n \in DOMAIN nodes : nodes[n].type = "Call" /\ OutgoingTypes(n) = {"Child", "Argument"}

\* `node_data.args` of a serialized node (only Call nodes have it)
ArgsOf(json) == IF json.class = "Call" THEN json.node_data.args ELSE <<>>

\* in how many (node, position) places of the lists chosen by `list` the
\* edge id e occurs in document doc
Places(doc, list(_), e) ==
  Cardinality({<<i, k>> \in (DOMAIN doc.nodes) \X (1 .. Len(doc.edges)) :
                 k \in DOMAIN list(doc.nodes[i]) /\ list(doc.nodes[i])[k] = e})

Incoming(json) == json.incoming

OutgoingOrArgs(json) == json.outgoing \o ArgsOf(json)

\* the document is closed under its references
ReferentiallyClosed(doc) ==
  /\ \A i \in DOMAIN doc.nodes : doc.nodes[i].id = i - 1
  /\ \A i \in DOMAIN doc.edges : doc.edges[i].id = i - 1
  /\ \A i \in DOMAIN doc.edges :
       /\ \E n \in DOMAIN doc.nodes : doc.nodes[n].id = doc.edges[i].source_node_id
       /\ \E n \in DOMAIN doc.nodes : doc.nodes[n].id = doc.edges[i].destination_node_id
  /\ \A n \in DOMAIN doc.nodes :
       /\ \A k \in DOMAIN doc.nodes[n].incoming :
            \E i \in DOMAIN doc.edges :
              /\ doc.edges[i].id = doc.nodes[n].incoming[k]
              /\ doc.edges[i].destination_node_id = doc.nodes[n].id
       /\ \A k \in DOMAIN OutgoingOrArgs(doc.nodes[n]) :
            \E i \in DOMAIN doc.edges :
              /\ doc.edges[i].id = OutgoingOrArgs(doc.nodes[n])[k]
              /\ doc.edges[i].source_node_id = doc.nodes[n].id
  /\ \A i \in DOMAIN doc.edges :
       /\ Places(doc, Incoming, doc.edges[i].id) = 1
       /\ Places(doc, OutgoingOrArgs, doc.edges[i].id) = 1

\* C25 (referential integrity of the document): in the document of a
\* completed build the i-th node and the i-th edge have id i (counting from
\* 0), every edge's end points are serialized nodes, every id in a node's
\* `incoming` is an edge that reaches it, every id in its `outgoing` or
\* `args` an edge that leaves it, and every edge id is in exactly one
\* `incoming` and exactly one `outgoing` or `args`, once.
ReferentialIntegrity ==
  /\ document # <<>> => ReferentiallyClosed(document[1])
  /\ file # <<>> => ReferentiallyClosed(file[1])

\* the written file of a graph with several edges, a node reached by more
\* than one edge and a Call node with an Argument edge
ReferentialIntegrityWitness ==
  /\ pc = "done" /\ file # <<>>
  /\ Len(file[1].edges) >= 6
  /\ \E i \in DOMAIN file[1].nodes : Len(file[1].nodes[i].incoming) >= 2
  /\ \E i \in DOMAIN file[1].nodes : Len(ArgsOf(file[1].nodes[i])) >= 1

====
